---- MODULE Spec2Model ----
(***************************************************************************)
(* Model of the zForms event batching and delivery subsystem:             *)
(*   EventQueue  (queue.ts)   - pending queue, batch timer, send cycle,   *)
(*                              sendBeacon, flush, destroy                 *)
(*   Storage     (storage.ts) - localStorage-backed durable store         *)
(*   zForms      (script.ts)  - configuration merge and the public track() *)
(* Events are identified by the order in which they are passed to add():  *)
(* the k-th event ever created is the integer k.                          *)
(***************************************************************************)
EXTENDS Integers, Sequences, FiniteSets, TLC

\* ------------------------------------------------------------------ bounds
MaxEvents == 3
MaxBatchSize == 3
MaxLog == 4
MaxRestarts == 1
\* Storage in isolation: how many events beyond the cap are handed to store()
Overflow == 3
\* the tracker: events created, focus events per field, setTimeout calls
MaxTracked == 2
MaxFocus == 2
MaxTimeouts == 2

\* -------------------------------------------------------- program constants
MAX_STORED_EVENTS == 1000
DEFAULT_BATCH_SIZE == 10
DEFAULT_BATCH_INTERVAL == 5000
DEFAULT_API_URL == "https://zForms.xyz/api/zForms/events"

VARIABLES
  queue,         \* EventQueue.queue: the Pending Queue
  isSending,     \* EventQueue.isSending
  sendTimer,     \* EventQueue.sendTimer: TRUE = interval armed, FALSE = null
  batchSize,     \* EventQueue.batchSize
  isAvailable,   \* Storage.isAvailable
  localStorage,  \* value held under STORAGE_KEY
  lsMode,        \* platform storage: "ok", "full" (setItem throws), "blocked"
  inflight,      \* batches of the fetch requests awaiting their response
  nextId,        \* identity of the next event handed to add()
  log,           \* history: payloads formed and their outcomes, restarts
  teardown,      \* "live"; "destroyed" after destroy(); "reused" once add()
                 \* was called after destroy()
  flushPromise, \* the promise of the latest flushAsync() call: none/awaiting/resolved
  kindOf,        \* the events created by zForms: the event_type for track(),
                 \* [event_type, form_id, field_id] for the DOM handlers
  config,        \* zForms.config, the merged configuration
  given,         \* the configuration object the caller passed to new zForms()
  formStates,    \* zForms.formStates: form id -> FormState
  timeouts       \* the page's setTimeout table: pending handles, last handle

vars == <<queue, isSending, sendTimer, batchSize, isAvailable, localStorage,
          lsMode, inflight, nextId, log, teardown, flushPromise, kindOf,
          config, given, formStates, timeouts>>

\* ----------------------------------------------------------- array helpers
Min(a, b) == IF a < b THEN a ELSE b
Max(a, b) == IF a > b THEN a ELSE b

\* Array.prototype.slice(0, n) / the elements removed by splice(0, n)
Take(s, n) == SubSeq(s, 1, Min(Max(n, 0), Len(s)))
\* what splice(0, n) leaves in the array
Drop(s, n) == SubSeq(s, Min(Max(n, 0), Len(s)) + 1, Len(s))
\* Array.prototype.slice(-n) for n > 0
LastN(s, n) == SubSeq(s, Max(Len(s) - n, 0) + 1, Len(s))

Range(s) == {s[i] : i \in 1..Len(s)}
IsPrefix(p, s) == Len(p) <= Len(s) /\ SubSeq(s, 1, Len(p)) = p
IsSuffix(p, s) == Len(p) <= Len(s) /\ SubSeq(s, Len(s) - Len(p) + 1, Len(s)) = p

Entry(op, events) == [op |-> op, events |-> events]

\* ------------------------------------------------------------------ Storage
LsModes == {"ok", "full", "blocked"}
Absent == [kind |-> "absent", events |-> <<>>]
JsonArray(events) == [kind |-> "array", events |-> events]

\* the write/remove probe of the constructor
checkStorageAvailability(mode) == mode # "blocked"

\* retrieve() reading the key without looking at isAvailable
retrieve_IgnoreAvailability(avail, ls) ==
  IF ls.kind \in {"absent", "garbage"} THEN <<>> ELSE ls.events

\* what retrieve() returns is the parsed value, whatever its type: its
\* elements (as .length and spreading see them) and its kind
retrieve(avail, ls) ==
  IF ~avail THEN <<>>
  ELSE IF ls.kind \in {"absent", "garbage"} THEN <<>> ELSE ls.events

retrieveKind(avail, ls) ==
  IF ~avail THEN "array"
  ELSE IF ls.kind \in {"absent", "garbage"} THEN "array" ELSE ls.kind

\* the values [...existing] can be applied to
Spreadable == {"array", "string"}

\* store() trimming from the wrong end: slice(0, MAX) instead of slice(-MAX)
store_KeepOldest(avail, mode, ls, events) ==
  IF ~avail \/ Len(events) = 0 THEN ls
  ELSE LET existing == retrieve(avail, ls)
           combined == Take(existing \o events, MAX_STORED_EVENTS)
       IN IF mode = "ok" /\ retrieveKind(avail, ls) \in Spreadable
          THEN JsonArray(combined)
          ELSE ls

store(avail, mode, ls, events) ==
  IF ~avail \/ Len(events) = 0 THEN ls
  ELSE LET existing == retrieve(avail, ls)
           combined == LastN(existing \o events, MAX_STORED_EVENTS)
       IN IF mode = "ok" /\ retrieveKind(avail, ls) \in Spreadable
          THEN JsonArray(combined)
          ELSE ls

clear(avail, ls) == IF ~avail THEN ls ELSE Absent

\* ------------------------------------------------------------------- zForms
\* an option value is <<v>>, or <<>> for undefined; an option the caller did
\* not pass is absent from the DOMAIN of the given configuration
Undefined == <<>>
ConfigKeys == {"api_url", "batch_size", "batch_interval"}
ConfigDefaults ==
  [api_url |-> <<DEFAULT_API_URL>>,
   batch_size |-> <<DEFAULT_BATCH_SIZE>>,
   batch_interval |-> <<DEFAULT_BATCH_INTERVAL>>]

\* { ...defaults, ...config }: every own property of given wins, undefined too
mergeConfig(cfg) ==
  [k \in ConfigKeys |-> IF k \in DOMAIN cfg THEN cfg[k] ELSE ConfigDefaults[k]]

\* a default parameter value of the EventQueue constructor
defaultParam(v, dflt) == IF v = Undefined THEN dflt ELSE v[1]

\* an empty Map of form states; no timeout pending, no handle given out yet
NoForms == [f \in {} |-> {}]
NoTimeouts == [pending |-> {}, last |-> 0]

\* --------------------------------------------------------------- EventQueue
Init ==
  /\ queue = <<>>
  /\ isSending = FALSE
  /\ sendTimer = TRUE
  /\ batchSize \in 1..MaxBatchSize
  /\ lsMode \in LsModes
  /\ isAvailable = checkStorageAvailability(lsMode)
  /\ localStorage = Absent
  /\ inflight = <<>>
  /\ nextId = 1
  /\ log = <<>>
  /\ teardown = "live"
  /\ flushPromise = "none"
  /\ kindOf = <<>>
  /\ given = [batch_size |-> <<batchSize>>]
  /\ formStates = NoForms
  /\ timeouts = NoTimeouts
  /\ config = mergeConfig(given)

\* send() without the in-flight guard
send_NoInFlightGuard(q) ==
  IF Len(q) = 0
  THEN /\ queue' = q
       /\ UNCHANGED <<isSending, inflight, log>>
  ELSE /\ isSending' = TRUE
       /\ queue' = Drop(q, batchSize)
       /\ inflight' = Append(inflight, Take(q, batchSize))
       /\ log' = Append(log, Entry("fetch", Take(q, batchSize)))

\* send() that posts the whole queue instead of one batch
send_WholeQueue(q) ==
  IF isSending \/ Len(q) = 0
  THEN /\ queue' = q
       /\ UNCHANGED <<isSending, inflight, log>>
  ELSE /\ isSending' = TRUE
       /\ queue' = <<>>
       /\ inflight' = Append(inflight, q)
       /\ log' = Append(log, Entry("fetch", q))

\* send(), entered with the queue holding q; runs up to the await of fetch
send(q) ==
  IF isSending \/ Len(q) = 0
  THEN /\ queue' = q
       /\ UNCHANGED <<isSending, inflight, log>>
  ELSE /\ isSending' = TRUE
       /\ queue' = Drop(q, batchSize)
       /\ inflight' = Append(inflight, Take(q, batchSize))
       /\ log' = Append(log, Entry("fetch", Take(q, batchSize)))

\* a call that is going to append to the history needs room in it
Room == Len(log) < MaxLog

\* the body of add(event): the event is the next identity
enqueue ==
  /\ nextId <= MaxEvents
  /\ Room
  /\ nextId' = nextId + 1
  /\ IF Len(queue) + 1 >= batchSize
     THEN send(Append(queue, nextId))
     ELSE /\ queue' = Append(queue, nextId)
          /\ UNCHANGED <<isSending, inflight, log>>
  /\ teardown' = (IF teardown = "destroyed" THEN "reused" ELSE teardown)
  /\ UNCHANGED <<sendTimer, batchSize, isAvailable, localStorage, lsMode,
                 flushPromise, config, given, formStates, timeouts>>

\* add() putting the new event at the head of the queue
add_Unshift ==
  /\ nextId <= MaxEvents
  /\ Room
  /\ nextId' = nextId + 1
  /\ IF Len(queue) + 1 >= batchSize
     THEN send(<<nextId>> \o queue)
     ELSE /\ queue' = <<nextId>> \o queue
          /\ UNCHANGED <<isSending, inflight, log>>
  /\ teardown' = (IF teardown = "destroyed" THEN "reused" ELSE teardown)
  /\ UNCHANGED <<sendTimer, batchSize, isAvailable, localStorage, lsMode,
                 flushPromise, config, given, formStates, timeouts>>
  /\ UNCHANGED kindOf

\* add() sending only once the queue is longer than the batch size
add_StrictThreshold ==
  /\ nextId <= MaxEvents
  /\ Room
  /\ nextId' = nextId + 1
  /\ IF Len(queue) + 1 > batchSize
     THEN send(Append(queue, nextId))
     ELSE /\ queue' = Append(queue, nextId)
          /\ UNCHANGED <<isSending, inflight, log>>
  /\ teardown' = (IF teardown = "destroyed" THEN "reused" ELSE teardown)
  /\ UNCHANGED <<sendTimer, batchSize, isAvailable, localStorage, lsMode,
                 flushPromise, config, given, formStates, timeouts>>
  /\ UNCHANGED kindOf

\* add(event) called by the host page, the event carrying no modelled kind
add == enqueue /\ UNCHANGED kindOf

\* an interval callback that sends only once a whole batch is waiting
startBatchTimer_OnlyWhenFull ==
  /\ sendTimer
  /\ Room
  /\ IF Len(queue) >= batchSize
     THEN send(queue)
     ELSE UNCHANGED <<queue, isSending, inflight, log>>
  /\ UNCHANGED <<sendTimer, batchSize, isAvailable, localStorage, lsMode, nextId,
                 teardown, flushPromise, kindOf, config, given, formStates, timeouts>>

\* the interval callback armed by startBatchTimer()
startBatchTimer ==
  /\ sendTimer
  /\ Room
  /\ IF Len(queue) > 0
     THEN send(queue)
     ELSE UNCHANGED <<queue, isSending, inflight, log>>
  /\ UNCHANGED <<sendTimer, batchSize, isAvailable, localStorage, lsMode, nextId,
                 teardown, flushPromise, kindOf, config, given, formStates, timeouts>>

flush ==
  /\ Room
  /\ IF Len(queue) > 0
     THEN send(queue)
     ELSE UNCHANGED <<queue, isSending, inflight, log>>
  /\ UNCHANGED <<sendTimer, batchSize, isAvailable, localStorage, lsMode, nextId,
                 teardown, flushPromise, kindOf, config, given, formStates, timeouts>>

\* flushAsync() up to the point where it awaits send()
flushAsync ==
  /\ Room
  /\ IF Len(queue) > 0
     THEN send(queue)
     ELSE UNCHANGED <<queue, isSending, inflight, log>>
  /\ flushPromise' = (IF ~isSending /\ Len(queue) > 0 THEN "awaiting"
                       ELSE "resolved")
  /\ UNCHANGED <<sendTimer, batchSize, isAvailable, localStorage, lsMode, nextId,
                 teardown, kindOf, config, given, formStates, timeouts>>

\* destroy() that flushes but leaves the interval running
destroy_KeepsTimer ==
  /\ Room
  /\ UNCHANGED sendTimer
  /\ IF Len(queue) > 0
     THEN send(queue)
     ELSE UNCHANGED <<queue, isSending, inflight, log>>
  /\ teardown' = "destroyed"
  /\ UNCHANGED <<batchSize, isAvailable, localStorage, lsMode, nextId,
                 flushPromise, kindOf, config, given, formStates, timeouts>>

destroy ==
  /\ Room
  /\ sendTimer' = FALSE
  /\ IF Len(queue) > 0
     THEN send(queue)
     ELSE UNCHANGED <<queue, isSending, inflight, log>>
  /\ teardown' = "destroyed"
  /\ UNCHANGED <<batchSize, isAvailable, localStorage, lsMode, nextId,
                 flushPromise, kindOf, config, given, formStates, timeouts>>

Outcomes == {"ok", "http_error", "network_error"}

\* the failure path re-queueing with push() instead of unshift()
sendResponse_Push(i, outcome) ==
  LET batch == inflight[i]
      rest == [j \in 1..(Len(inflight) - 1) |->
                 IF j < i THEN inflight[j] ELSE inflight[j + 1]]
  IN /\ Room
     /\ inflight' = rest
     /\ IF outcome = "ok"
        THEN /\ log' = Append(log, Entry("ok", batch))
             /\ UNCHANGED <<queue, localStorage>>
        ELSE /\ localStorage' = store(isAvailable, lsMode, localStorage, batch)
             /\ queue' = queue \o batch
             /\ log' = Append(log, Entry("fail", batch))
     /\ isSending' = FALSE
     /\ flushPromise' = (IF flushPromise = "awaiting" THEN "resolved"
                          ELSE flushPromise)
     /\ UNCHANGED <<sendTimer, batchSize, isAvailable, lsMode, nextId,
                    teardown, kindOf, config, given, formStates, timeouts>>

\* the flag cleared at the end of the try block instead of in finally
sendResponse_NoFinally(i, outcome) ==
  LET batch == inflight[i]
      rest == [j \in 1..(Len(inflight) - 1) |->
                 IF j < i THEN inflight[j] ELSE inflight[j + 1]]
  IN /\ Room
     /\ inflight' = rest
     /\ IF outcome = "ok"
        THEN /\ log' = Append(log, Entry("ok", batch))
             /\ isSending' = FALSE
             /\ UNCHANGED <<queue, localStorage>>
        ELSE /\ localStorage' = store(isAvailable, lsMode, localStorage, batch)
             /\ queue' = batch \o queue
             /\ log' = Append(log, Entry("fail", batch))
             /\ UNCHANGED isSending
     /\ flushPromise' = (IF flushPromise = "awaiting" THEN "resolved"
                          ELSE flushPromise)
     /\ UNCHANGED <<sendTimer, batchSize, isAvailable, lsMode, nextId,
                    teardown, kindOf, config, given, formStates, timeouts>>

\* send() without the response.ok test: an HTTP error status counts as sent
sendResponse_HttpErrorIsSuccess(i, outcome) ==
  LET batch == inflight[i]
      rest == [j \in 1..(Len(inflight) - 1) |->
                 IF j < i THEN inflight[j] ELSE inflight[j + 1]]
  IN /\ Room
     /\ inflight' = rest
     /\ IF outcome \in {"ok", "http_error"}
        THEN /\ log' = Append(log, Entry("ok", batch))
             /\ UNCHANGED <<queue, localStorage>>
        ELSE /\ localStorage' = store(isAvailable, lsMode, localStorage, batch)
             /\ queue' = batch \o queue
             /\ log' = Append(log, Entry("fail", batch))
     /\ isSending' = FALSE
     /\ flushPromise' = (IF flushPromise = "awaiting" THEN "resolved"
                          ELSE flushPromise)
     /\ UNCHANGED <<sendTimer, batchSize, isAvailable, lsMode, nextId,
                    teardown, kindOf, config, given, formStates, timeouts>>

\* send() calling storage.clear() after a successful request
sendResponse_ClearOnOk(i, outcome) ==
  LET batch == inflight[i]
      rest == [j \in 1..(Len(inflight) - 1) |->
                 IF j < i THEN inflight[j] ELSE inflight[j + 1]]
  IN /\ Room
     /\ inflight' = rest
     /\ IF outcome = "ok"
        THEN /\ log' = Append(log, Entry("ok", batch))
             /\ localStorage' = clear(isAvailable, localStorage)
             /\ UNCHANGED queue
        ELSE /\ localStorage' = store(isAvailable, lsMode, localStorage, batch)
             /\ queue' = batch \o queue
             /\ log' = Append(log, Entry("fail", batch))
     /\ isSending' = FALSE
     /\ flushPromise' = (IF flushPromise = "awaiting" THEN "resolved"
                          ELSE flushPromise)
     /\ UNCHANGED <<sendTimer, batchSize, isAvailable, lsMode, nextId,
                    teardown, kindOf, config, given, formStates, timeouts>>

\* the continuation of send() after the await: the response of request i

sendResponse(i, outcome) ==
  LET batch == inflight[i]
      rest == [j \in 1..(Len(inflight) - 1) |->
                 IF j < i THEN inflight[j] ELSE inflight[j + 1]]
  IN /\ Room
     /\ inflight' = rest
     /\ IF outcome = "ok"
        THEN /\ log' = Append(log, Entry("ok", batch))
             /\ UNCHANGED <<queue, localStorage>>
        ELSE /\ localStorage' = store(isAvailable, lsMode, localStorage, batch)
             /\ queue' = batch \o queue
             /\ log' = Append(log, Entry("fail", batch))
     /\ isSending' = FALSE
     /\ flushPromise' = (IF flushPromise = "awaiting" THEN "resolved"
                          ELSE flushPromise)
     /\ UNCHANGED <<sendTimer, batchSize, isAvailable, lsMode, nextId,
                    teardown, kindOf, config, given, formStates, timeouts>>

\* sendBeacon() that keeps the queue after an accepted submission
sendBeacon_KeepQueue(accepted) ==
  IF Len(queue) = 0
  THEN UNCHANGED <<queue, localStorage, log>>
  ELSE IF accepted
       THEN /\ log' = Append(log, Entry("beacon_ok", queue))
            /\ UNCHANGED <<queue, localStorage>>
       ELSE /\ localStorage' = store(isAvailable, lsMode, localStorage, queue)
            /\ log' = Append(log, Entry("beacon_rej", queue))
            /\ UNCHANGED queue

\* sendBeacon() that empties the queue after a rejected submission too
sendBeacon_DropOnReject(accepted) ==
  IF Len(queue) = 0
  THEN UNCHANGED <<queue, localStorage, log>>
  ELSE IF accepted
       THEN /\ queue' = <<>>
            /\ log' = Append(log, Entry("beacon_ok", queue))
            /\ UNCHANGED localStorage
       ELSE /\ localStorage' = store(isAvailable, lsMode, localStorage, queue)
            /\ log' = Append(log, Entry("beacon_rej", queue))
            /\ queue' = <<>>

\* sendBeacon() offering one batch instead of the whole queue
sendBeacon_BatchOnly(accepted) ==
  IF Len(queue) = 0
  THEN UNCHANGED <<queue, localStorage, log>>
  ELSE IF accepted
       THEN /\ queue' = Drop(queue, batchSize)
            /\ log' = Append(log, Entry("beacon_ok", Take(queue, batchSize)))
            /\ UNCHANGED localStorage
       ELSE /\ localStorage' = store(isAvailable, lsMode, localStorage,
                                     Take(queue, batchSize))
            /\ log' = Append(log, Entry("beacon_rej", Take(queue, batchSize)))
            /\ UNCHANGED queue

\* sendBeacon(); accepted is the value navigator.sendBeacon returns
sendBeacon(accepted) ==
  IF Len(queue) = 0
  THEN UNCHANGED <<queue, localStorage, log>>
  ELSE IF accepted
       THEN /\ queue' = <<>>
            /\ log' = Append(log, Entry("beacon_ok", queue))
            /\ UNCHANGED localStorage
       ELSE /\ localStorage' = store(isAvailable, lsMode, localStorage, queue)
            /\ log' = Append(log, Entry("beacon_rej", queue))
            /\ UNCHANGED queue

LifecycleFrame ==
  UNCHANGED <<isSending, sendTimer, batchSize, isAvailable, lsMode, inflight,
              nextId, teardown, flushPromise, kindOf, config, given, formStates, timeouts>>

\* the three listeners registered by setupUnloadHandler()
visibilitychange(state, accepted) ==
  /\ Room
  /\ IF state = "hidden"
     THEN sendBeacon(accepted)
     ELSE UNCHANGED <<queue, localStorage, log>>
  /\ LifecycleFrame

beforeunload(accepted) == Room /\ sendBeacon(accepted) /\ LifecycleFrame

pagehide(accepted) == Room /\ sendBeacon(accepted) /\ LifecycleFrame

\* loadStoredEvents() that leaves the persisted events in place
loadStoredEvents_NoClear(avail, ls) ==
  [queue |-> retrieve(avail, ls), ls |-> ls]

\* loadStoredEvents() on the empty queue of a new instance
loadStoredEvents(avail, ls) ==
  LET stored == retrieve(avail, ls)
  IN IF Len(stored) > 0
     THEN [queue |-> stored, ls |-> clear(avail, ls)]
     ELSE [queue |-> <<>>, ls |-> ls]

Restarts == Cardinality({i \in 1..Len(log) : log[i].op = "restart"})

\* the page is loaded again: a new EventQueue over the same localStorage
constructor ==
  /\ Room
  /\ Restarts < MaxRestarts
  /\ \E mode \in LsModes :
       LET avail == checkStorageAvailability(mode)
           loaded == loadStoredEvents(avail, localStorage)
       IN /\ lsMode' = mode
          /\ isAvailable' = avail
          /\ queue' = loaded.queue
          /\ localStorage' = loaded.ls
  /\ isSending' = FALSE
  /\ sendTimer' = TRUE
  /\ inflight' = <<>>
  /\ log' = Append(log, Entry("restart",
                       loadStoredEvents(checkStorageAvailability(lsMode'),
                                        localStorage).queue))
  /\ teardown' = "live"
  /\ flushPromise' = "none"
  /\ UNCHANGED <<batchSize, nextId, kindOf, config, given, formStates, timeouts>>

\* ------------------------------------------------------------ zForms.track
EventTypes ==
  {"focus", "blur", "submit", "abandon", "error", "change", "interaction"}

\* trackEvent(event): the event of kind t goes to queue.add()
trackEvent(t) == enqueue /\ kindOf' = Append(kindOf, t)

\* track() handing every eventType on
track_NoValidation(t) == trackEvent(t)

\* track(formId, fieldId, eventType)
track(t) ==
  IF t \notin EventTypes
  THEN UNCHANGED vars
  ELSE trackEvent(t)

Next ==
  \/ add
  \/ startBatchTimer
  \/ flush
  \/ flushAsync
  \/ destroy
  \/ \E i \in 1..Len(inflight), outcome \in Outcomes : sendResponse(i, outcome)
  \/ \E state \in {"hidden", "visible"}, accepted \in BOOLEAN :
       visibilitychange(state, accepted)
  \/ \E accepted \in BOOLEAN : beforeunload(accepted)
  \/ \E accepted \in BOOLEAN : pagehide(accepted)
  \/ constructor

Spec == Init /\ [][Next]_vars

TypeOK ==
  /\ isSending \in BOOLEAN
  /\ sendTimer \in BOOLEAN
  /\ Len(queue) <= MaxEvents * (MaxLog + 1)
  /\ Len(log) <= MaxLog

\* ------------------------------------------------------- views of the state
\* what the Storage instance of the running page reports as persisted
DurableStore == retrieve(isAvailable, localStorage)

PayloadOps == {"fetch", "beacon_ok", "beacon_rej"}
LastEntry(l) == l[Len(l)]
\* the step appended one entry with this op to the history
Logged(op) == Len(log') = Len(log) + 1 /\ LastEntry(log').op = op
\* no entry with an op of ops strictly between positions i and j
NoneBetween(i, j, ops) == \A k \in (i + 1)..(j - 1) : log[k].op \notin ops

\* ---------------------------------------------------------------------- C1
\* C1 (part): a send cycle entered while isSending is true changes neither
\* the Pending Queue nor the Durable Store and issues no request
C1_NoOpWhileSending ==
  /\ (isSending /\ (startBatchTimer \/ flush \/ flushAsync \/ destroy))
       => (queue' = queue /\ localStorage' = localStorage
           /\ inflight' = inflight /\ log' = log)
  /\ (isSending /\ add)
       => (queue' = Append(queue, nextId) /\ localStorage' = localStorage
           /\ inflight' = inflight /\ log' = log)

\* C1: at every instant at most one outbound request is outstanding, for any
\* interleaving of add(), timer ticks, flush()/flushAsync() and destroy()
\* while a send awaits its response; a send cycle invoked while isSending is
\* true changes neither the Pending Queue nor the Durable Store
C1_AtMostOneRequest ==
  [][Len(inflight') <= 1 /\ C1_NoOpWhileSending]_vars

\* a send is outstanding and the queue passed the batch size twice meanwhile
C1_Witness ==
  isSending /\ Len(inflight) = 1 /\ Len(queue) >= 2 * batchSize

\* ---------------------------------------------------------------------- C2
\* C2 as stated: after a failed send of batch b the Durable Store is its
\* previous content followed by b, and the Pending Queue is b followed by
\* what the queue held
C2_Original ==
  [][Logged("fail") =>
       /\ DurableStore' = DurableStore \o LastEntry(log').events
       /\ queue' = LastEntry(log').events \o queue]_vars

\* C2 amended: after a failed send of batch b the Pending Queue is b followed
\* by what the queue held; the Durable Store is the last MAX_STORED_EVENTS of
\* (previous content followed by b) when persistence is available and the
\* write is accepted, and is unchanged otherwise
C2_FailureRequeues ==
  [][Logged("fail") =>
       /\ queue' = LastEntry(log').events \o queue
       /\ IF isAvailable /\ lsMode = "ok"
          THEN DurableStore' = LastN(DurableStore \o LastEntry(log').events,
                                     MAX_STORED_EVENTS)
          ELSE localStorage' = localStorage]_vars

\* a batch has just failed with events enqueued behind it while it was out
C2_Witness ==
  /\ Len(log) > 0 /\ LastEntry(log).op = "fail"
  /\ isAvailable /\ lsMode = "ok"
  /\ Len(queue) > Len(LastEntry(log).events)
  /\ IsPrefix(LastEntry(log).events, queue)
  /\ IsSuffix(LastEntry(log).events, DurableStore)
  /\ Len(DurableStore) > Len(LastEntry(log).events)

\* ---------------------------------------------------------------------- C3
\* C3 as stated: the first successful delivery after a failed batch (in the
\* same session) delivers exactly that batch
C3_Original ==
  \A i \in 1..Len(log) : \A j \in 1..Len(log) :
    (i < j /\ log[i].op = "fail" /\ log[j].op \in {"ok", "beacon_ok"}
       /\ NoneBetween(i, j, {"ok", "beacon_ok", "restart"}))
      => log[j].events = log[i].events

\* C3 amended: the first payload formed after a failed batch (in the same
\* session, normal or emergency) begins with that batch's events in their
\* original order, and a normal retry of a full batch carries exactly it
C3_RetryFirst ==
  \A i \in 1..Len(log) : \A j \in 1..Len(log) :
    (i < j /\ log[i].op = "fail" /\ log[j].op \in PayloadOps
       /\ NoneBetween(i, j, PayloadOps \cup {"restart"}))
      => /\ IsPrefix(log[i].events, log[j].events)
         /\ (log[j].op = "fetch" /\ Len(log[i].events) = batchSize)
              => log[j].events = log[i].events

\* a batch failed with a newer event behind it, was retried and delivered
C3_Witness ==
  \E i \in 1..Len(log) :
    /\ i + 2 <= Len(log)
    /\ log[i].op = "fail" /\ log[i + 1].op = "fetch" /\ log[i + 2].op = "ok"
    /\ log[i + 1].events = log[i].events
    /\ Len(queue) > 0

\* ---------------------------------------------------------------------- C4
\* C4: once a batch has been sent successfully none of its events is in the
\* Pending Queue or the Durable Store, and none is transmitted again, in this
\* session or after a restart
C4_DeliveredNeverReappear ==
  \A i \in 1..Len(log) :
    log[i].op = "ok" =>
      /\ Range(log[i].events) \cap Range(queue) = {}
      /\ Range(log[i].events) \cap Range(localStorage.events) = {}
      /\ \A j \in (i + 1)..Len(log) :
           log[j].op \in PayloadOps =>
             Range(log[i].events) \cap Range(log[j].events) = {}

\* ---------------------------------------------------------------------- C5
RECURSIVE Flatten(_)
Flatten(ss) == IF Len(ss) = 0 THEN <<>> ELSE Head(ss) \o Flatten(Tail(ss))

IsOk(e) == e.op = "ok"
\* the batches the endpoint answered with a success status, in order
Delivered == [k \in 1..Len(SelectSeq(log, IsOk)) |-> SelectSeq(log, IsOk)[k].events]
\* only normal sends happened and none failed
NoFailureRun == \A k \in 1..Len(log) : log[k].op \in {"fetch", "ok"}
CeilDiv(n, b) == (n + b - 1) \div b
Enqueued == [k \in 1..(nextId - 1) |-> k]

\* C5 as stated: with no failure the endpoint receives the N events in
\* exactly ceil(N/B) batches whose concatenation is the enqueue order
C5_Original ==
  (NoFailureRun /\ Len(queue) = 0 /\ Len(inflight) = 0)
    => /\ Len(Delivered) = CeilDiv(nextId - 1, batchSize)
       /\ Flatten(Delivered) = Enqueued

\* C5 amended: with no failure the delivered batches, the batch in flight and
\* the queue concatenate to the enqueue order, every batch holds between 1
\* and B events, and N delivered events took at least ceil(N/B) batches
C5_OrderedBatches ==
  NoFailureRun =>
    /\ Flatten(Delivered) \o Flatten(inflight) \o queue = Enqueued
    /\ \A k \in 1..Len(Delivered) :
         Len(Delivered[k]) >= 1 /\ Len(Delivered[k]) <= batchSize
    /\ Len(Delivered) >= CeilDiv(Len(Flatten(Delivered)), batchSize)

\* two events, batch size two, delivered in two batches because of a tick
C5_Witness ==
  /\ NoFailureRun /\ Len(queue) = 0 /\ Len(inflight) = 0
  /\ batchSize = 2 /\ nextId = 3 /\ Len(Delivered) = 2

\* ---------------------------------------------------------------------- C6
\* C6: add(event) appends the event at the tail of the Pending Queue, and if
\* the resulting length is >= batchSize a send is in flight when add()
\* returns (started in the same step unless one was already outstanding)
C6_AddAppendsAndTriggers ==
  [][add =>
       /\ \/ /\ queue' = Append(queue, nextId)
             /\ inflight' = inflight
          \/ /\ ~isSending
             /\ inflight' = <<Take(Append(queue, nextId), batchSize)>>
             /\ inflight'[1] \o queue' = Append(queue, nextId)
       /\ (Len(queue) + 1 >= batchSize)
            => (isSending' /\ Len(inflight') = 1
                /\ (~isSending => Logged("fetch")))
       /\ (Len(queue) + 1 < batchSize) => UNCHANGED <<isSending, inflight, log>>
    ]_vars

\* the event just added completed a batch of two, which is now in flight
C6_Witness ==
  /\ isSending /\ Len(inflight) = 1 /\ batchSize = 2
  /\ inflight[1] = <<nextId - 2, nextId - 1>>
  /\ Len(log) > 0 /\ LastEntry(log).op = "fetch"
  /\ Len(queue) = 0

\* ---------------------------------------------------------------------- C7
\* position of the construction that started the running session (0: Init)
SessionStart ==
  IF \E k \in 1..Len(log) : log[k].op = "restart"
  THEN CHOOSE k \in 1..Len(log) :
         log[k].op = "restart" /\ \A m \in (k + 1)..Len(log) : log[m].op # "restart"
  ELSE 0
\* the events the running session loaded from the Durable Store
Loaded == IF SessionStart = 0 THEN <<>> ELSE log[SessionStart].events
IsSent(e) == e.op \in {"fetch", "beacon_ok"}
\* the payloads handed to a channel in the running session, in order
SessionSent ==
  LET ss == SelectSeq(SubSeq(log, SessionStart + 1, Len(log)), IsSent)
  IN [k \in 1..Len(ss) |-> ss[k].events]
SessionNoFailure ==
  \A k \in (SessionStart + 1)..Len(log) : log[k].op \notin {"fail", "beacon_rej"}

\* a construction leaves the queue equal to what the store held, store emptied
C7_LoadStep ==
  Logged("restart") =>
    /\ queue' = retrieve(isAvailable', localStorage)
    /\ LastEntry(log').events = queue'
    /\ retrieve(isAvailable', localStorage') = <<>>
    /\ isAvailable' => localStorage' = Absent \/ localStorage = localStorage'

\* with no failure in the session, what was handed over so far followed by
\* the queue is the loaded sequence followed by the live events in add order
C7_LoadedFirst ==
  SessionNoFailure =>
    LET all == Flatten(SessionSent) \o queue
        live == Len(all) - Len(Loaded)
    IN /\ IsPrefix(Loaded, all)
       /\ \A k \in 1..live : all[Len(Loaded) + k] = nextId - live + k - 1

\* C7: a new EventQueue constructed over a Durable Store holding S has its
\* Pending Queue equal to S and the store empty; with no failures S is
\* transmitted first, in order, before any live-session event
C7_DurabilityRoundTrip == [](C7_LoadedFirst) /\ [][C7_LoadStep]_vars

\* a restart loaded a stored event and sent it ahead of a live event
C7_Witness ==
  /\ SessionStart > 0 /\ Len(Loaded) > 0 /\ SessionNoFailure
  /\ localStorage = Absent
  /\ LastEntry(log).op = "fetch"
  /\ IsPrefix(Loaded, LastEntry(log).events)
  /\ Len(LastEntry(log).events) > Len(Loaded)

\* ---------------------------------------------------------------------- C8
\* Storage on its own: store() applied to successive groups of new events
StoreSizes == {0, 1, 2, MAX_STORED_EVENTS - 1, MAX_STORED_EVENTS}
NewEvents(n) == [k \in 1..n |-> nextId + k - 1]

StoreInit ==
  /\ queue = <<>>
  /\ isSending = FALSE
  /\ sendTimer = TRUE
  /\ batchSize = 1
  /\ lsMode \in LsModes
  /\ isAvailable = checkStorageAvailability(lsMode)
  /\ localStorage = Absent
  /\ inflight = <<>>
  /\ nextId = 1
  /\ log = <<>>
  /\ teardown = "live"
  /\ flushPromise = "none"
  /\ kindOf = <<>>
  /\ given = [batch_size |-> <<batchSize>>]
  /\ formStates = NoForms
  /\ timeouts = NoTimeouts
  /\ config = mergeConfig(given)

storeCall(n) ==
  /\ nextId + n - 1 <= MAX_STORED_EVENTS + Overflow
  /\ localStorage' = store(isAvailable, lsMode, localStorage, NewEvents(n))
  /\ nextId' = nextId + n
  /\ UNCHANGED <<queue, isSending, sendTimer, batchSize, isAvailable, lsMode,
                 inflight, log, teardown, flushPromise, kindOf, config, given, formStates, timeouts>>

StoreNext == \E n \in StoreSizes : storeCall(n)

StoreSpec == StoreInit /\ [][StoreNext]_vars

\* C8 as stated: the persisted sequence never exceeds the cap and after
\* store(events) it is the last 1000 of (previous content followed by events)
C8_Original ==
  /\ [](Len(DurableStore) <= MAX_STORED_EVENTS)
  /\ [][DurableStore' = LastN(DurableStore \o NewEvents(nextId' - nextId),
                              MAX_STORED_EVENTS)]_vars

\* C8 amended: the persisted sequence never exceeds the cap; after
\* store(events) it is the last 1000 of (previous content followed by events)
\* when persistence is available and the write is accepted, else unchanged
C8_CapacityEviction ==
  /\ [](Len(localStorage.events) <= MAX_STORED_EVENTS)
  /\ [][IF isAvailable /\ lsMode = "ok"
        THEN DurableStore' = LastN(DurableStore \o NewEvents(nextId' - nextId),
                                   MAX_STORED_EVENTS)
        ELSE localStorage' = localStorage]_vars

\* 1000 + Overflow events were stored: the oldest Overflow are gone
C8_Witness ==
  /\ Len(DurableStore) = MAX_STORED_EVENTS
  /\ nextId = MAX_STORED_EVENTS + Overflow + 1
  /\ DurableStore[1] = Overflow + 1
  /\ DurableStore[MAX_STORED_EVENTS] = MAX_STORED_EVENTS + Overflow

\* ---------------------------------------------------------------------- C9
\* C9: the step that handles the response (2xx, non-2xx, exception; also when
\* persisting the batch raises) leaves isSending false, and isSending is true
\* exactly while a request is outstanding, so a later call can send again
C9_FlagCleared ==
  /\ [](isSending <=> Len(inflight) > 0)
  /\ [][(Logged("ok") \/ Logged("fail")) => (~isSending' /\ Len(inflight') = 0)]_vars

\* setItem threw while the failed batch was persisted, and a later cycle
\* started a new request
C9_Witness ==
  /\ lsMode = "full" /\ SessionStart = 0
  /\ isSending /\ Len(inflight) = 1
  /\ \E i \in 1..Len(log) :
       i + 1 <= Len(log) /\ log[i].op = "fail" /\ log[i + 1].op = "fetch"

\* --------------------------------------------------------------------- C10
\* C10: destroy() leaves no buffered event only in memory: each event that was
\* in the Pending Queue is handed to a delivery channel by destroy() or is in
\* the Durable Store afterwards
C10_DestroyCoversQueue ==
  [][destroy =>
       \A k \in 1..Len(queue) :
         \/ queue[k] \in Range(DurableStore')
         \/ (Len(log') = Len(log) + 1
               /\ queue[k] \in Range(LastEntry(log').events))]_vars

\* --------------------------------------------------------------------- C11
\* C11: M events were enqueued, 0 < M < batchSize, then destroy() was called
\* (whatever the scheduler was doing) and every delivery attempt failed; with
\* persistence available the M events are in the Durable Store in their
\* original order
C11_TeardownCompleteness ==
  (/\ teardown = "destroyed"
   /\ nextId > 1 /\ nextId - 1 < batchSize
   /\ SessionStart = 0 /\ lsMode = "ok"
   /\ Len(inflight) = 0
   /\ \E k \in 1..Len(log) : log[k].op = "fail"
   /\ \A k \in 1..Len(log) : log[k].op \notin {"ok", "beacon_ok"})
    => IsSuffix(Enqueued, DurableStore)

\* --------------------------------------------------------------------- C12
BeaconOps == {"beacon_ok", "beacon_rej"}
\* one of the three lifecycle listeners ran
LifecycleSignal ==
  \/ \E state \in {"hidden", "visible"}, accepted \in BOOLEAN :
       visibilitychange(state, accepted)
  \/ \E accepted \in BOOLEAN : beforeunload(accepted)
  \/ \E accepted \in BOOLEAN : pagehide(accepted)
\* the payload of entry j holds an event that no entry up to i mentions, that
\* is, an event enqueued after entry i
NewEventSince(i, j) ==
  \E e \in Range(log[j].events) :
    \A k \in 1..i : e \notin Range(log[k].events)

\* C12 as stated: after an accepted emergency submission a further emergency
\* payload is issued only once a new event has been enqueued
C12_Original ==
  \A i \in 1..Len(log), j \in 1..Len(log) :
    (/\ i < j
     /\ log[i].op = "beacon_ok"
     /\ log[j].op \in BeaconOps
     /\ NoneBetween(i, j, {"restart"}))
      => NewEventSince(i, j)

C12_AfterAccepted ==
  \A i \in 1..Len(log), j \in 1..Len(log) :
    (/\ i < j
     /\ log[i].op = "beacon_ok"
     /\ log[j].op \in BeaconOps
     /\ NoneBetween(i, j, {"restart"}))
      => \/ NewEventSince(i, j)
         \/ \E k \in (i + 1)..(j - 1) : log[k].op = "fail"

\* C12 (amended): an accepted emergency submission empties the Pending Queue;
\* a lifecycle signal that finds the queue empty issues no payload and stores
\* nothing; hence two signals in immediate succession yield one payload, and a
\* later emergency payload carries a newly enqueued event or follows a failed
\* request that re-queued its batch
C12_LifecycleIdempotence ==
  /\ [][/\ Logged("beacon_ok") => queue' = <<>>
        /\ (Len(queue) = 0 /\ LifecycleSignal)
             => (log' = log /\ localStorage' = localStorage /\ queue' = queue)]_vars
  /\ []C12_AfterAccepted

\* an emergency submission of several events was just accepted
C12_Witness ==
  /\ Len(log) > 0
  /\ LastEntry(log).op = "beacon_ok"
  /\ Len(LastEntry(log).events) >= 2
  /\ queue = <<>>

\* --------------------------------------------------------------------- C13
\* C13 as stated: a rejected emergency submission appends the offered batch
\* to the Durable Store (up to the cap) and leaves the Pending Queue as it was
C13_Original ==
  [][Logged("beacon_rej")
       => (/\ DurableStore' = LastN(DurableStore \o queue, MAX_STORED_EVENTS)
           /\ queue' = queue)]_vars

\* C13 (amended): the same when the storage accepts writes; when it is
\* unavailable or refuses the write the Durable Store is left as it was; in
\* both cases the Pending Queue keeps every event
C13_RejectedIsPersisted ==
  [][Logged("beacon_rej")
       => (/\ IF lsMode = "ok"
              THEN DurableStore' = LastN(DurableStore \o queue, MAX_STORED_EVENTS)
              ELSE localStorage' = localStorage
           /\ LastEntry(log').events = queue
           /\ queue' = queue)]_vars

\* a rejected submission of several events is both stored and still queued
C13_Witness ==
  /\ Len(log) > 0
  /\ LastEntry(log).op = "beacon_rej"
  /\ lsMode = "ok"
  /\ Len(queue) >= 2
  /\ LastEntry(log).events = queue
  /\ IsSuffix(queue, DurableStore)

\* --------------------------------------------------------------------- C14
\* C14: flushAsync() completes only after a send cycle for the queue head has
\* run to its outcome: whenever its promise resolves, the last thing that
\* happened is the outcome of a request (delivered, or persisted and
\* requeued) with no request left outstanding, or the queue was empty at the call
C14_FlushAsyncCompletes ==
  [][(flushPromise' = "resolved" /\ flushPromise # "resolved")
       => \/ (flushAsync /\ Len(queue) = 0)
          \/ (Len(inflight') = 0 /\ (Logged("ok") \/ Logged("fail")))]_vars

\* --------------------------------------------------------------------- C15
\* the event is in the Pending Queue, in an in-flight batch, in the persisted
\* array, or in a payload the endpoint accepted
Safe(e) ==
  \/ e \in Range(queue)
  \/ \E i \in 1..Len(inflight) : e \in Range(inflight[i])
  \/ e \in Range(localStorage.events)
  \/ \E k \in 1..Len(log) :
       log[k].op \in {"ok", "beacon_ok"} /\ e \in Range(log[k].events)

\* C15: no event is lost while persistence is available: an event passed to
\* add() leaves the Pending Queue, the in-flight batch, the Durable Store and
\* the accepted payloads only when a transmission of it failed in this page
\* session while persistence was not available
C15_NoEventLost ==
  [][\A e \in 1..(nextId - 1) :
       (Safe(e) /\ ~Safe(e)')
         => (/\ lsMode # "ok"
             /\ \E k \in (SessionStart + 1)..Len(log) :
                  /\ log[k].op \in {"fail", "beacon_rej"}
                  /\ e \in Range(log[k].events))]_vars

\* --------------------------------------------------------------------- C16
\* the three Storage operations on the state at hand, storage unavailable
C16_StorageNoOps ==
  ~isAvailable
    => (/\ store(isAvailable, lsMode, localStorage, queue) = localStorage
        /\ clear(isAvailable, localStorage) = localStorage
        /\ retrieve(isAvailable, localStorage) = <<>>
        /\ DurableStore = <<>>)

\* C16: when the construction-time probe failed, store() and clear() change
\* nothing and retrieve() returns the empty sequence; the scheduler behaves
\* as with an empty store: start-up loads nothing, no step of the session
\* writes the storage, and a failed batch is requeued at the head with the
\* sending flag cleared
C16_UnavailableDegrades ==
  /\ []C16_StorageNoOps
  /\ [][/\ (~isAvailable /\ ~Logged("restart")) => localStorage' = localStorage
        /\ (~isAvailable' /\ Logged("restart"))
             => (queue' = <<>> /\ localStorage' = localStorage)
        /\ (~isAvailable /\ Logged("fail"))
             => (/\ queue' = LastEntry(log').events \o queue
                 /\ ~isSending')]_vars

\* storage unavailable, a batch failed and sits again ahead of a newer event
C16_Witness ==
  /\ ~isAvailable
  /\ Len(log) > 0
  /\ LastEntry(log).op = "fail"
  /\ IsPrefix(LastEntry(log).events, queue)
  /\ Len(queue) > Len(LastEntry(log).events)
  /\ ~isSending

\* --------------------------------------------------------------------- C17
\* values under the storage key that are not a JSON array of events:
\* unparseable text, and valid JSON that is a string (its characters shown as
\* negative numbers), a number or an object
MalformedValues ==
  {[kind |-> "garbage", events |-> <<>>],
   [kind |-> "string", events |-> <<-1, -2>>],
   [kind |-> "number", events |-> <<>>],
   [kind |-> "object", events |-> <<>>]}

\* a scheduler constructed over a malformed persisted value
MalformedInit ==
  /\ isSending = FALSE
  /\ sendTimer = TRUE
  /\ batchSize \in 1..MaxBatchSize
  /\ lsMode \in LsModes
  /\ isAvailable = checkStorageAvailability(lsMode)
  /\ \E raw \in MalformedValues :
       /\ queue = loadStoredEvents(isAvailable, raw).queue
       /\ localStorage = loadStoredEvents(isAvailable, raw).ls
  /\ inflight = <<>>
  /\ nextId = 1
  /\ log = <<>>
  /\ teardown = "live"
  /\ flushPromise = "none"
  /\ kindOf = <<>>
  /\ given = [batch_size |-> <<batchSize>>]
  /\ formStates = NoForms
  /\ timeouts = NoTimeouts
  /\ config = mergeConfig(given)

MalformedNext ==
  \/ add
  \/ startBatchTimer
  \/ \E i \in 1..Len(inflight), outcome \in Outcomes : sendResponse(i, outcome)
  \/ \E accepted \in BOOLEAN : pagehide(accepted)

MalformedSpec == MalformedInit /\ [][MalformedNext]_vars

\* C17: malformed persisted content is treated as empty: retrieve() returns
\* an array, and only events; start-up puts nothing into the Pending Queue
\* that was not passed to add(); and a later store() of a failed or rejected
\* batch persists it when the storage accepts writes
C17_MalformedIsEmpty ==
  /\ [](/\ retrieveKind(isAvailable, localStorage) = "array"
        /\ \A e \in Range(queue) \cup Range(DurableStore) : e \in 1..(nextId - 1))
  /\ [][(lsMode = "ok" /\ (Logged("fail") \/ Logged("beacon_rej")))
          => IsSuffix(LastEntry(log').events, DurableStore')]_vars

\* --------------------------------------------------------------------- C18
\* event types a caller may pass: the seven kinds and some that are not
TrackInputs == EventTypes \cup {"click", "Focus", ""}

TrackNext == \E t \in TrackInputs : track(t)

TrackSpec == Init /\ [][TrackNext]_vars

\* C18: track() with one of the seven event types enqueues exactly one event
\* of that kind (at the tail of the Pending Queue, or in the batch sent at
\* once); with any other event type it changes nothing
C18_TrackValidates ==
  /\ [][\E t \in TrackInputs :
         /\ track(t)
         /\ IF t \in EventTypes
            THEN /\ kindOf' = Append(kindOf, t)
                 /\ nextId' = nextId + 1
                 /\ Flatten(inflight') \o queue'
                      = Flatten(inflight) \o Append(queue, nextId)
                 /\ localStorage' = localStorage
            ELSE UNCHANGED vars]_vars
  /\ [](\A i \in 1..Len(kindOf) : kindOf[i] \in EventTypes)

\* three events of different kinds were tracked
C18_Witness ==
  /\ Len(kindOf) = 3
  /\ nextId = 4
  /\ Cardinality(Range(kindOf)) = 3
  /\ Flatten(inflight) \o queue = <<1, 2, 3>>

\* --------------------------------------------------------------------- C19
\* what new EventQueue(api_url, project_key, batch_size, batch_interval) is
\* constructed with
apiUrl == config["api_url"]
batchInterval == defaultParam(config["batch_interval"], DEFAULT_BATCH_INTERVAL)

\* configurations a caller may pass: each option absent, undefined or set
GivenOf(D, u, s, i) ==
  [k \in D |-> CASE k = "api_url" -> u
                [] k = "batch_size" -> s
                [] k = "batch_interval" -> i]
Givens ==
  {GivenOf(D, u, s, i) :
     D \in SUBSET ConfigKeys,
     u \in {Undefined, <<"https://collector.example/events">>},
     s \in {Undefined, <<1>>, <<2>>},
     i \in {Undefined, <<1000>>}}

\* new zForms(given): the merge, then the EventQueue constructor
ConfigInit ==
  /\ given \in Givens
  /\ formStates = NoForms
  /\ timeouts = NoTimeouts
  /\ config = mergeConfig(given)
  /\ batchSize = defaultParam(config["batch_size"], DEFAULT_BATCH_SIZE)
  /\ queue = <<>>
  /\ isSending = FALSE
  /\ sendTimer = TRUE
  /\ lsMode \in LsModes
  /\ isAvailable = checkStorageAvailability(lsMode)
  /\ localStorage = Absent
  /\ inflight = <<>>
  /\ nextId = 1
  /\ log = <<>>
  /\ teardown = "live"
  /\ flushPromise = "none"
  /\ kindOf = <<>>

ConfigNext == add \/ startBatchTimer

ConfigSpec == ConfigInit /\ [][ConfigNext]_vars

\* the option was left unset: not passed, or passed as undefined
Unset(k) == k \notin DOMAIN given \/ given[k] = Undefined

\* C19: for every option the caller leaves unset the effective value is the
\* default (endpoint URL, batch size 10, interval 5000 ms), and the scheduler
\* never has an undefined endpoint
C19_ConfigDefaults ==
  /\ Unset("api_url") => apiUrl = <<DEFAULT_API_URL>>
  /\ Unset("batch_size") => batchSize = DEFAULT_BATCH_SIZE
  /\ Unset("batch_interval") => batchInterval = DEFAULT_BATCH_INTERVAL
  /\ apiUrl # Undefined

\* --------------------------------------------------------------------- C20
\* C20: destroy() cancels the interval timer: from the moment destroy() has
\* returned the timer is not armed and no step is a timer tick, whatever the
\* Pending Queue holds afterwards
C20_TimerCancelled ==
  /\ [](teardown # "live" => ~sendTimer)
  /\ [][teardown # "live" => ~startBatchTimer]_vars

\* after destroy() an event was added and waits in the queue, nothing in
\* flight and no timer to pick it up
C20_Witness ==
  /\ teardown = "reused"
  /\ Len(queue) > 0
  /\ ~isSending
  /\ ~sendTimer

\* --------------------------------------------------------------------- C22
FailureOutcomes == {"http_error", "network_error"}
\* the step is the response of request i with a non-success status or with a
\* network-level exception
FailedResponse(i) == \E outcome \in FailureOutcomes : sendResponse(i, outcome)
\* what either failure does to the scheduler, the store left aside
SameFailurePath(i) ==
  /\ \A outcome \in FailureOutcomes : sendResponse(i, outcome)
  /\ Logged("fail")
  /\ queue' = inflight[i] \o queue
  /\ ~isSending'

\* C22 as stated: an HTTP error status and a network exception are the same
\* step: batch back at the head of the Pending Queue, batch appended to the
\* Durable Store, isSending false
C22_Original ==
  [][\A i \in 1..Len(inflight) :
       FailedResponse(i)
         => (/\ SameFailurePath(i)
             /\ DurableStore'
                  = LastN(DurableStore \o inflight[i], MAX_STORED_EVENTS))]_vars

\* C22 (amended): the same step for both; the batch is appended to the
\* Durable Store when the storage accepts the write and the store is left as
\* it was otherwise
C22_FailuresAlike ==
  [][\A i \in 1..Len(inflight) :
       FailedResponse(i)
         => (/\ SameFailurePath(i)
             /\ IF lsMode = "ok"
                THEN DurableStore'
                       = LastN(DurableStore \o inflight[i], MAX_STORED_EVENTS)
                ELSE localStorage' = localStorage)]_vars

\* a batch of two failed: it heads the queue again and ends the store
C22_Witness ==
  /\ Len(log) > 0
  /\ LastEntry(log).op = "fail"
  /\ Len(LastEntry(log).events) = 2
  /\ lsMode = "ok"
  /\ IsPrefix(LastEntry(log).events, queue)
  /\ IsSuffix(LastEntry(log).events, DurableStore)
  /\ ~isSending

HiddenSignal ==
  \/ \E accepted \in BOOLEAN : visibilitychange("hidden", accepted)
  \/ \E accepted \in BOOLEAN : beforeunload(accepted)
  \/ \E accepted \in BOOLEAN : pagehide(accepted)

C30_NoDuplicateStored ==
  /\ Cardinality(Range(DurableStore)) = Len(DurableStore)
  /\ \A k \in 1..Len(log) :
       log[k].op = "restart"
         => Cardinality(Range(log[k].events)) = Len(log[k].events)

\* --------------------------------------------------------------------- C24
\* the endpoint answered a request carrying the event with a success status
Transmitted(e) ==
  \E k \in 1..Len(log) : log[k].op = "ok" /\ e \in Range(log[k].events)

\* history entries that delivering everything pending can still take: one
\* response per outstanding request, a request and a response per queued
\* event
LiveNeed == Len(inflight) + 2 * Len(queue)

\* add() and failing responses happen only while the bounded history has room
\* for the deliveries they make necessary
LiveAdd == add /\ Len(log) + LiveNeed + 2 <= MaxLog

LiveResponse ==
  \E i \in 1..Len(inflight) :
    \/ sendResponse(i, "ok")
    \/ /\ Len(log) + Len(inflight) + 2 * (Len(queue) + Len(inflight[i])) <= MaxLog
       /\ \E outcome \in FailureOutcomes : sendResponse(i, outcome)

LiveNext == LiveAdd \/ startBatchTimer \/ LiveResponse

\* the timer keeps ticking and every request gets its response; failures
\* are finitely many
LiveSpec ==
  /\ Init
  /\ [][LiveNext]_vars
  /\ WF_vars(startBatchTimer)
  /\ WF_vars(LiveResponse)

FormOrder == <<"f1", "f2">>
Forms == Range(FormOrder)
Fields == {"a"}
Null == "null"

Event(type, f, x) == [event_type |-> type, form_id |-> f, field_id |-> x]

\* attachFormListeners(): the state of a field whose element has value hv,
\* and of a form
newFieldState(hv) ==
  [focus_time |-> FALSE,
   last_event |-> Null,
   interaction_count |-> 0,
   has_value |-> hv,
   validation_errors |-> 0,
   blur_debounce_timer |-> 0]

newFormState(hv) ==
  [field_states |-> [x \in Fields |-> newFieldState(hv)],
   submitted |-> FALSE,
   last_focused_field |-> Null]

\* the EventQueue as a value, so that one handler can make several calls
QueueState ==
  [queue |-> queue, isSending |-> isSending, inflight |-> inflight,
   log |-> log, nextId |-> nextId, kindOf |-> kindOf]

\* send() up to the await of fetch
sendFn(st) ==
  IF st.isSending \/ Len(st.queue) = 0
  THEN st
  ELSE [st EXCEPT !.isSending = TRUE,
                  !.queue = Drop(st.queue, batchSize),
                  !.inflight = Append(st.inflight, Take(st.queue, batchSize)),
                  !.log = Append(st.log, Entry("fetch", Take(st.queue, batchSize)))]

\* trackEvent(ev): queue.add(ev)
trackEventFn(st, ev) ==
  LET pushed == [st EXCEPT !.queue = Append(st.queue, st.nextId),
                           !.nextId = st.nextId + 1,
                           !.kindOf = Append(st.kindOf, ev)]
  IN IF Len(pushed.queue) >= batchSize THEN sendFn(pushed) ELSE pushed

\* queue.flush()
flushFn(st) == IF Len(st.queue) > 0 THEN sendFn(st) ELSE st

\* the handler's calls fit the bounds of the model
Fits(st) == st.nextId - 1 <= MaxTracked /\ Len(st.log) <= MaxLog

SetQueue(st) ==
  /\ Fits(st)
  /\ queue' = st.queue
  /\ isSending' = st.isSending
  /\ inflight' = st.inflight
  /\ log' = st.log
  /\ nextId' = st.nextId
  /\ kindOf' = st.kindOf

ApplyQueue(st) ==
  /\ SetQueue(st)
  /\ teardown' = (IF teardown = "destroyed" /\ st.nextId > nextId
                   THEN "reused" ELSE teardown)

TrackerFrame ==
  UNCHANGED <<batchSize, isAvailable, lsMode, flushPromise, config, given>>

Tracked(f) == f \in DOMAIN formStates

\* handleFocus() emitting an interaction event on every focus
handleFocus_EveryFocus(f, x) ==
  IF ~Tracked(f)
  THEN UNCHANGED vars
  ELSE LET n == formStates[f].field_states[x].interaction_count + 1
       IN /\ n <= MaxFocus
          /\ formStates' =
               [formStates EXCEPT ![f].field_states[x].interaction_count = n,
                                  ![f].field_states[x].focus_time = TRUE,
                                  ![f].field_states[x].last_event = "focus",
                                  ![f].last_focused_field = x]
          /\ ApplyQueue(trackEventFn(QueueState, Event("interaction", f, x)))
          /\ UNCHANGED <<sendTimer, localStorage, timeouts>>
          /\ TrackerFrame

\* the focus listener of field x of form f
handleFocus(f, x) ==
  IF ~Tracked(f)
  THEN UNCHANGED vars
  ELSE LET n == formStates[f].field_states[x].interaction_count + 1
       IN /\ n <= MaxFocus
          /\ formStates' =
               [formStates EXCEPT ![f].field_states[x].interaction_count = n,
                                  ![f].field_states[x].focus_time = TRUE,
                                  ![f].field_states[x].last_event = "focus",
                                  ![f].last_focused_field = x]
          /\ IF n = 1
             THEN ApplyQueue(trackEventFn(QueueState, Event("interaction", f, x)))
             ELSE ApplyQueue(QueueState)
          /\ UNCHANGED <<sendTimer, localStorage, timeouts>>
          /\ TrackerFrame

\* clearTimeout(h) and setTimeout(callback of field x of form f); the entry
\* remembers n, the number of focus events the field had when it was set
clearTimeout(table, h) ==
  [table EXCEPT !.pending = {t \in table.pending : t.id # h}]
setTimeout(table, f, x, n) ==
  [pending |-> table.pending \cup
                 {[id |-> table.last + 1, form |-> f, field |-> x, focuses |-> n]},
   last |-> table.last + 1]

\* handleBlur() scheduling without cancelling the timer it already has
handleBlur_NoCancel(f, x) ==
  IF ~Tracked(f) \/ ~formStates[f].field_states[x].focus_time
  THEN UNCHANGED vars
  ELSE /\ timeouts.last < MaxTimeouts
       /\ timeouts' = setTimeout(timeouts, f, x,
                                formStates[f].field_states[x].interaction_count)
       /\ formStates' =
            [formStates EXCEPT ![f].field_states[x].blur_debounce_timer =
                                 timeouts'.last]
       /\ UNCHANGED <<queue, isSending, inflight, log, nextId, kindOf, teardown,
                      sendTimer, localStorage>>
       /\ TrackerFrame

\* the blur listener of field x of form f
handleBlur(f, x) ==
  IF ~Tracked(f) \/ ~formStates[f].field_states[x].focus_time
  THEN UNCHANGED vars
  ELSE LET h == formStates[f].field_states[x].blur_debounce_timer
           cleared == IF h # 0 THEN clearTimeout(timeouts, h) ELSE timeouts
       IN /\ timeouts.last < MaxTimeouts
          /\ timeouts' = setTimeout(cleared, f, x,
                                   formStates[f].field_states[x].interaction_count)
          /\ formStates' =
               [formStates EXCEPT ![f].field_states[x].blur_debounce_timer =
                                    timeouts'.last]
          /\ UNCHANGED <<queue, isSending, inflight, log, nextId, kindOf,
                         teardown, sendTimer, localStorage>>
          /\ TrackerFrame

\* the debounce callback of timeout t fires; long: more than 500 ms were
\* spent in the field; hv: the element has a value now. The callback works on
\* the field state it closed over, in the map or not.
blurTimer(t, long, hv) ==
  /\ t \in timeouts.pending
  /\ timeouts' = [timeouts EXCEPT !.pending = timeouts.pending \ {t}]
  /\ formStates' =
       IF Tracked(t.form)
       THEN [formStates EXCEPT ![t.form].field_states[t.field].focus_time = FALSE,
                               ![t.form].field_states[t.field].last_event = "blur",
                               ![t.form].field_states[t.field].blur_debounce_timer = 0,
                               ![t.form].field_states[t.field].has_value = hv]
       ELSE formStates
  /\ IF long
     THEN ApplyQueue(trackEventFn(QueueState, Event("blur", t.form, t.field)))
     ELSE ApplyQueue(QueueState)
  /\ UNCHANGED <<sendTimer, localStorage>>
  /\ TrackerFrame

\* the change listener (track_changes on); hv: the element has a value now
handleChange(f, x, hv) ==
  IF ~Tracked(f)
  THEN UNCHANGED vars
  ELSE /\ formStates' = [formStates EXCEPT ![f].field_states[x].has_value = hv]
       /\ IF ~formStates[f].field_states[x].has_value /\ hv
          THEN ApplyQueue(trackEventFn(QueueState, Event("change", f, x)))
          ELSE ApplyQueue(QueueState)
       /\ UNCHANGED <<sendTimer, localStorage, timeouts>>
       /\ TrackerFrame

\* the invalid listener
handleError(f, x) ==
  IF ~Tracked(f)
  THEN UNCHANGED vars
  ELSE /\ formStates' =
            [formStates EXCEPT ![f].field_states[x].validation_errors = @ + 1]
       /\ ApplyQueue(trackEventFn(QueueState, Event("error", f, x)))
       /\ UNCHANGED <<sendTimer, localStorage, timeouts>>
       /\ TrackerFrame

\* the submit listener of form f
handleSubmit(f) ==
  /\ formStates' = IF Tracked(f)
                   THEN [formStates EXCEPT ![f].submitted = TRUE]
                   ELSE formStates
  /\ ApplyQueue(flushFn(trackEventFn(QueueState, Event("submit", f, "__form__"))))
  /\ UNCHANGED <<sendTimer, localStorage, timeouts>>
  /\ TrackerFrame

\* trackAbandonment() not looking at last_focused_field
abandons_NoFocusGate(f) ==
  /\ Tracked(f)
  /\ ~formStates[f].submitted

\* trackAbandonment(): the forms that get an abandon event
abandons(f) ==
  /\ Tracked(f)
  /\ ~formStates[f].submitted
  /\ formStates[f].last_focused_field # Null

\* the forEach of trackAbandonment(), from the i-th form on
RECURSIVE abandonFrom(_, _)
abandonFrom(st, i) ==
  IF i > Len(FormOrder)
  THEN st
  ELSE LET f == FormOrder[i]
       IN abandonFrom(IF abandons(f)
                      THEN trackEventFn(st, Event("abandon", f,
                                                  formStates[f].last_focused_field))
                      ELSE st,
                      i + 1)

trackAbandonmentFn(st) == flushFn(abandonFrom(st, 1))

\* EventQueue.sendBeacon() on the queue value st and the persisted value ls
sendBeaconFn(st, ls, accepted) ==
  IF Len(st.queue) = 0
  THEN [st |-> st, ls |-> ls]
  ELSE IF accepted
       THEN [st |-> [st EXCEPT !.queue = <<>>,
                               !.log = Append(st.log, Entry("beacon_ok", st.queue))],
             ls |-> ls]
       ELSE [st |-> [st EXCEPT !.log = Append(st.log, Entry("beacon_rej", st.queue))],
             ls |-> store(isAvailable, lsMode, ls, st.queue)]

\* visibilitychange to hidden is dispatched at the document and bubbles to
\* the window: the listener of zForms (document) runs before the one of
\* EventQueue (window)
dispatchVisibilityHidden(accepted) ==
  LET b == sendBeaconFn(trackAbandonmentFn(QueueState), localStorage, accepted)
  IN /\ ApplyQueue(b.st)
     /\ localStorage' = b.ls
     /\ UNCHANGED <<sendTimer, formStates, timeouts>>
     /\ TrackerFrame

\* pagehide and beforeunload are dispatched at the window: the listener of
\* EventQueue, registered in its constructor, runs before the one of zForms
dispatchUnload(accepted) ==
  LET b == sendBeaconFn(QueueState, localStorage, accepted)
  IN /\ ApplyQueue(trackAbandonmentFn(b.st))
     /\ localStorage' = b.ls
     /\ UNCHANGED <<sendTimer, formStates, timeouts>>
     /\ TrackerFrame

\* the handles held by the field states in the map
Handles ==
  {formStates[f].field_states[x].blur_debounce_timer :
     f \in DOMAIN formStates, x \in Fields} \ {0}

\* zForms.destroy()
zFormsDestroy ==
  /\ teardown = "live"
  /\ timeouts' = [timeouts EXCEPT
                     !.pending = {t \in timeouts.pending : t.id \notin Handles}]
  /\ sendTimer' = FALSE
  /\ SetQueue(flushFn(QueueState))
  /\ teardown' = "destroyed"
  /\ formStates' = NoForms
  /\ UNCHANGED localStorage
  /\ TrackerFrame

\* what navigator.sendBeacon returns while the tracker is observed: the
\* browser queues the beacon (a refused beacon is followed in Spec)
BeaconResults == {TRUE}

\* new zForms(config) on a document holding Forms with empty fields,
\* setupTracking() done
TrackerInit ==
  /\ queue = <<>>
  /\ isSending = FALSE
  /\ sendTimer = TRUE
  /\ batchSize = MaxTracked
  /\ lsMode = "ok"
  /\ isAvailable = checkStorageAvailability(lsMode)
  /\ localStorage = Absent
  /\ inflight = <<>>
  /\ nextId = 1
  /\ log = <<>>
  /\ teardown = "live"
  /\ flushPromise = "none"
  /\ kindOf = <<>>
  /\ given = [batch_size |-> <<batchSize>>]
  /\ config = mergeConfig(given)
  /\ formStates = [f \in Forms |-> newFormState(FALSE)]
  /\ timeouts = NoTimeouts

TrackerNext ==
  \/ \E f \in Forms, x \in Fields : handleFocus(f, x)
  \/ \E f \in Forms, x \in Fields : handleBlur(f, x)
  \/ \E t \in timeouts.pending, long \in BOOLEAN, hv \in BOOLEAN :
       blurTimer(t, long, hv)
  \/ \E f \in Forms, x \in Fields, hv \in BOOLEAN : handleChange(f, x, hv)
  \/ \E f \in Forms, x \in Fields : handleError(f, x)
  \/ \E f \in Forms : handleSubmit(f)
  \/ \E accepted \in BeaconResults : dispatchVisibilityHidden(accepted)
  \/ \E accepted \in BeaconResults : dispatchUnload(accepted)
  \/ zFormsDestroy

TrackerSpec == TrackerInit /\ [][TrackerNext]_vars

TrackerTypeOK ==
  /\ DOMAIN formStates \subseteq Forms
  /\ timeouts.last <= MaxTimeouts
  /\ nextId - 1 <= MaxTracked

\* the events the step created, and those of one kind for form f and field x
NewEventsOf(type, f) ==
  {i \in (Len(kindOf) + 1)..Len(kindOf') :
     kindOf'[i].event_type = type /\ kindOf'[i].form_id = f}
EventsOf(type, f, x) ==
  {i \in 1..Len(kindOf) :
     kindOf[i] = Event(type, f, x)}
\* the browser dispatched a visibility-hidden, pagehide or beforeunload event
Signal ==
  /\ formStates' = formStates
  /\ \/ \E accepted \in BeaconResults : dispatchVisibilityHidden(accepted)
     \/ \E accepted \in BeaconResults : dispatchUnload(accepted)

\* --------------------------------------------------------------------- C21
\* C21: after zForms.destroy() has returned no DOM event and no lifecycle
\* signal makes the instance enqueue an event or issue a request or beacon
C21_FullTeardown ==
  [][teardown # "live" => (nextId' = nextId /\ log' = log)]_vars

\* --------------------------------------------------------------------- C26
\* C26: on a lifecycle signal a tracked form gets an abandon event if and
\* only if it was not submitted and its last_focused_field is set (a form
\* with validation errors but no focus, and a submitted form, get none); no
\* other step creates an abandon event
C26_AbandonGate ==
  [][\A f \in Forms :
       LET created == NewEventsOf("abandon", f)
           gate == /\ Tracked(f)
                   /\ ~formStates[f].submitted
                   /\ formStates[f].last_focused_field # Null
       IN /\ Cardinality(created) <= 1
          /\ created # {} => (gate /\ Signal)
          /\ (gate /\ Signal) => created # {}]_vars

\* the first form was focused and left: it has its abandon event, the
\* second form, never focused, has none
C26_Witness ==
  /\ \E i \in 1..Len(kindOf) :
       kindOf[i].event_type = "abandon" /\ kindOf[i].form_id = "f1"
  /\ Tracked("f2")
  /\ formStates["f2"].last_focused_field = Null
  /\ \A i \in 1..Len(kindOf) : kindOf[i].form_id # "f2"

\* --------------------------------------------------------------------- C27
\* C27: no abandon event is created for a form all of whose tracked fields
\* have a value when the page is hidden or unloaded
C27_NoAbandonWhenCompleted ==
  [][\A f \in Forms :
       (Tracked(f) /\ \A x \in Fields : formStates[f].field_states[x].has_value)
         => NewEventsOf("abandon", f) = {}]_vars

\* --------------------------------------------------------------------- C28
PendingOf(f, x) == {t \in timeouts.pending : t.form = f /\ t.field = x}

\* C28: a field has at most one pending blur timer, the one its state holds
\* the handle of; the handle is null again once the timer fired; after
\* destroy() no timer is pending and no blur event is created
C28_OneBlurTimer ==
  /\ [](\A f \in Forms, x \in Fields :
          /\ Cardinality(PendingOf(f, x)) <= 1
          /\ Tracked(f)
               => (\A t \in PendingOf(f, x) :
                     t.id = formStates[f].field_states[x].blur_debounce_timer)
          /\ Tracked(f)
               => (formStates[f].field_states[x].blur_debounce_timer = 0
                   \/ PendingOf(f, x) # {}))
  /\ [](teardown # "live" => timeouts.pending = {})
  /\ [][teardown # "live" => \A f \in Forms : NewEventsOf("blur", f) = {}]_vars

\* a second blur replaced the timer of the first: one timer pending, the
\* second handle
C28_Witness ==
  /\ timeouts.last = 2
  /\ Tracked("f1")
  /\ formStates["f1"].field_states["a"].blur_debounce_timer = 2
  /\ {t.id : t \in PendingOf("f1", "a")} = {2}

\* --------------------------------------------------------------------- C29
\* C29: focus handling creates at most one interaction event per field, on
\* the first focus; interaction_count goes up by one with every focus
C29_OneInteractionEvent ==
  /\ [](\A f \in Forms, x \in Fields :
          /\ Cardinality(EventsOf("interaction", f, x)) <= 1
          /\ Tracked(f)
               => Cardinality(EventsOf("interaction", f, x))
                    = (IF formStates[f].field_states[x].interaction_count >= 1
                       THEN 1 ELSE 0))
  /\ [][\A f \in Forms, x \in Fields :
          (Tracked(f) /\ Tracked(f)')
            => LET before == formStates[f].field_states[x].interaction_count
                   after == formStates'[f].field_states[x].interaction_count
               IN /\ after \in {before, before + 1}
                  /\ after = before + 1
                       <=> (handleFocus(f, x) /\ formStates' # formStates)]_vars

\* a field focused twice, with its single interaction event
C29_Witness ==
  /\ Tracked("f1")
  /\ formStates["f1"].field_states["a"].interaction_count = 2
  /\ Cardinality(EventsOf("interaction", "f1", "a")) = 1

\* --------------------------------------------------------------------- C31
IsHanded(e) == e.op \in PayloadOps
\* the events handed to fetch or to sendBeacon in the running session, in
\* the order of the calls and of the payloads
SessionHanded ==
  LET ss == SelectSeq(SubSeq(log, SessionStart + 1, Len(log)), IsHanded)
  IN Flatten([k \in 1..Len(ss) |-> ss[k].events])
FirstIndex(s, e) ==
  CHOOSE i \in 1..Len(s) : s[i] = e /\ \A j \in 1..(i - 1) : s[j] # e
\* the place at which event e entered the queue of the running session: the
\* loaded events in the order of the store, then the added ones as created
EntryRank(e) ==
  IF e \in Range(Loaded) THEN FirstIndex(Loaded, e) ELSE Len(Loaded) + e

\* C31: within a session the first hand-over of each event to fetch or to
\* sendBeacon happens in the order the events entered the queue (loaded
\* events first, then add() order), whatever was retried in between
C31_FirstHandoverInOrder ==
  LET h == SessionHanded
      isFirst(i) == \A k \in 1..(i - 1) : h[k] # h[i]
  IN \A i, j \in 1..Len(h) :
       (i < j /\ isFirst(i) /\ isFirst(j)) => EntryRank(h[i]) < EntryRank(h[j])

\* a batch failed and was sent again, and while it is in flight a lifecycle
\* signal hands the events behind it to sendBeacon
C31_Witness ==
  /\ Len(inflight) > 0
  /\ Len(log) > 0
  /\ LastEntry(log).op \in BeaconOps
  /\ \E k \in (SessionStart + 1)..Len(log) : log[k].op = "fail"
  /\ \E e \in Range(LastEntry(log).events) :
       \A k \in 1..(Len(log) - 1) : IsHanded(log[k]) => e \notin Range(log[k].events)

\* --------------------------------------------------------------------- C32
\* C32: no payload handed to fetch or to sendBeacon is empty, and a payload
\* of fetch carries at most batch_size events (batch_size >= 1); only a
\* payload of sendBeacon may carry more
C32_PayloadSizes ==
  batchSize >= 1 =>
    \A k \in 1..Len(log) :
      /\ log[k].op \in PayloadOps => Len(log[k].events) >= 1
      /\ log[k].op = "fetch" => Len(log[k].events) <= batchSize

\* a full batch went to fetch and a longer payload went to sendBeacon
C32_Witness ==
  /\ \E k \in 1..Len(log) :
       log[k].op = "fetch" /\ Len(log[k].events) = batchSize
  /\ \E k \in 1..Len(log) :
       log[k].op \in BeaconOps /\ Len(log[k].events) > batchSize

\* --------------------------------------------------------------------- C33
\* the debounce callback of timeout t runs in this step
Fires(t) ==
  /\ t \in timeouts.pending
  /\ t \notin timeouts'.pending
  /\ timeouts'.last = timeouts.last
  /\ \E long \in BOOLEAN, hv \in BOOLEAN : blurTimer(t, long, hv)

\* C33: when the blur timer of a field fires after the field was focused
\* again, the field keeps a non-null focus_time and last_event = 'focus'
C33_FocusSurvivesRace ==
  [][\A t \in timeouts.pending :
       (/\ Tracked(t.form)
        /\ t.focuses < formStates[t.form].field_states[t.field].interaction_count
        /\ Fires(t))
         => /\ formStates'[t.form].field_states[t.field].focus_time
            /\ formStates'[t.form].field_states[t.field].last_event = "focus"]_vars

====
